---------------------------- MODULE Spec2Model ----------------------------
(***************************************************************************)
(* The recipe service of justArale/recipe-ai-assistant: a Hono application *)
(* over one D1 (SQLite) table, "recipes".                                  *)
(*                                                                         *)
(* src/src/index.ts is the worker; src/unnamed/part_000 is a second copy   *)
(* of the application whose NewRecipeSchema differs                        *)
(* (ingredience: z.string().email()) and whose root route does not touch   *)
(* storage.  Both are modelled, over the same table.                       *)
(*                                                                         *)
(* The state is the table, the storage clock, and the last exchange: the   *)
(* request, the statements the handler issued to storage with their        *)
(* outcome, and the handler's outcome.  Requests whose handler is          *)
(* suspended at its await are kept in inflight (ConcurrentSpec only).      *)
(***************************************************************************)
EXTENDS Integers, Sequences, FiniteSets, TLC

VARIABLES
    rows,      \* the recipes table, in rowid order
    now,       \* the storage clock: the index into Timestamps of the current time
    req,       \* the last request that was answered
    calls,     \* the storage calls made for req: <<[stmt, error]>> or <<>>
    resp,      \* the outcome of req's handler
    created,   \* the body of the exchange before req when that was a 201, else <<>>
    seen,      \* the ids carried by every outcome before resp
    assigned,  \* the ids storage has assigned, oldest first
    inflight   \* handlers suspended at their await, each with its statement

vars == <<rows, now, req, calls, resp, created, seen, assigned, inflight>>

-----------------------------------------------------------------------------
(* Bounds of the model.                                                    *)

MaxRows == 2        \* inserts that reach the table
MaxInflight == 2    \* handlers suspended at once (ConcurrentSpec)

-----------------------------------------------------------------------------
(* Values.                                                                 *)

Ramen == "Ramen"
Soba == "Soba, broth, pork, eggs"
Chef == "chef@example.com"

\* A JavaScript value as a request carries it: typeof and the text.
Undefined == [type |-> "undefined", val |-> ""]
Str(s) == [type |-> "string", val |-> s]
Num42 == [type |-> "number", val |-> "42"]

\* The request bodies tried: the JSON body of POST /api/recipe, and the form
\* of POST /add-recipe, where parseBody() yields a string for a field that is
\* present and undefined for one that is absent.
Body(name, ingredience) == [name |-> name, ingredience |-> ingredience]

FormBodies ==
    { Body(Str(Ramen), Str(Soba)), Body(Str(""), Str(Chef)),
      Body(Str(Ramen), Str("")), Body(Undefined, Str(Soba)),
      Body(Str(Ramen), Undefined), Body(Undefined, Undefined) }

JsonBodies == FormBodies \cup {Body(Num42, Str(Soba)), Body(Str(Ramen), Num42)}

\* What CURRENT_TIMESTAMP evaluates to, as the storage clock advances.
Timestamps == <<"2024-11-02 10:00:00", "2024-11-02 10:00:01">>

\* The {id} path segment, as characters.  <<>> is the path without the segment.
IdParams ==
    { <<>>, <<"0">>, <<"1">>, <<"2">>, <<"3">>, <<"4">>, <<"-", "1">>,
      <<"1", ".", "5">>, <<"2", ".", "0">>, <<"a", "b", "c">>, <<"1", "x">> }

NoParam == <<>>

-----------------------------------------------------------------------------
(* z.coerce.number(): Number(input), then z.number(), which refuses NaN.   *)
(* Number() on the characters the params above use: an optional sign, then *)
(* decimal digits with an optional fraction; anything else is NaN.  A      *)
(* number is num/den with den a power of ten.                              *)

Digits == {"0", "1", "2", "3", "4", "5", "6", "7", "8", "9"}

DigitVal(c) ==
    CASE c = "0" -> 0 [] c = "1" -> 1 [] c = "2" -> 2 [] c = "3" -> 3
      [] c = "4" -> 4 [] c = "5" -> 5 [] c = "6" -> 6 [] c = "7" -> 7
      [] c = "8" -> 8 [] c = "9" -> 9

RECURSIVE DigitsVal(_)
DigitsVal(s) ==
    IF s = <<>> THEN 0
    ELSE DigitsVal(SubSeq(s, 1, Len(s) - 1)) * 10 + DigitVal(s[Len(s)])

RECURSIVE Pow10(_)
Pow10(k) == IF k = 0 THEN 1 ELSE 10 * Pow10(k - 1)

AllDigits(s) == \A i \in 1..Len(s) : s[i] \in Digits

NaN == [nan |-> TRUE, num |-> 0, den |-> 1]

Number(s) ==
    LET signed == Len(s) > 0 /\ s[1] \in {"-", "+"}
        sign == IF Len(s) > 0 /\ s[1] = "-" THEN -1 ELSE 1
        body == IF signed THEN Tail(s) ELSE s
        dots == {i \in 1..Len(body) : body[i] = "."}
        dot == IF dots = {} THEN Len(body) + 1
               ELSE CHOOSE i \in dots : \A j \in dots : i <= j
        int == SubSeq(body, 1, dot - 1)
        frac == SubSeq(body, dot + 1, Len(body))
    IN  IF s = <<>> THEN [nan |-> FALSE, num |-> 0, den |-> 1]
        ELSE IF AllDigits(int) /\ AllDigits(frac) /\ Len(int) + Len(frac) > 0
        THEN [nan |-> FALSE,
              num |-> sign * (DigitsVal(int) * Pow10(Len(frac)) + DigitsVal(frac)),
              den |-> Pow10(Len(frac))]
        ELSE NaN

\* getRecipe's params schema: the parsed id, or a ZodError.
ParamsSchema(p) ==
    LET n == Number(p)
    IN  IF n.nan THEN [success |-> FALSE, id |-> NaN]
        ELSE [success |-> TRUE, id |-> n]

IsPositiveInteger(n) == ~n.nan /\ n.num > 0 /\ n.num % n.den = 0

-----------------------------------------------------------------------------
(* The request-body schemas.                                               *)

\* The texts of this model that zod's email pattern matches.
EmailTexts == {Chef}
IsEmail(s) == s \in EmailTexts

\* z.string(): a string of any length, the empty one included.
ZString(v) == v.type = "string"

\* NewRecipeSchema of src/src/index.ts.
NewRecipeSchema(name, ingredience) == ZString(name) /\ ZString(ingredience)

\* NewRecipeSchema of src/unnamed/part_000: ingredience must be an email.
Part000NewRecipeSchema(name, ingredience) ==
    ZString(name) /\ ZString(ingredience) /\ IsEmail(ingredience.val)

-----------------------------------------------------------------------------
(* Storage: the recipes table behind drizzle and D1.                       *)

Null == [type |-> "null", val |-> ""]

\* drizzle binds a column whose value is undefined as null (no default).
Bind(v) == IF v.type = "undefined" THEN Null ELSE v

SelectAll == [op |-> "select", id |-> NaN, name |-> Null, ingredience |-> Null]
SelectWhereId(n) ==
    [op |-> "selectWhereId", id |-> n, name |-> Null, ingredience |-> Null]
InsertValues(name, ingredience) ==
    [op |-> "insert", id |-> NaN, name |-> Bind(name),
     ingredience |-> Bind(ingredience)]

NoError == "none"
Unavailable == "D1_ERROR: storage unavailable"
NotNullFailed == "D1_ERROR: NOT NULL constraint failed"

\* integer("id").primaryKey(): the rowid, one more than the largest in the table.
MaxId(table) ==
    IF table = <<>> THEN 0
    ELSE CHOOSE m \in {table[i].id : i \in 1..Len(table)} :
            \A i \in 1..Len(table) : table[i].id <= m
\* Mutant of NextId: the largest id in the table is handed out again.
NextIdReuse(table) == IF table = <<>> THEN 1 ELSE MaxId(table)
NextId(table) == MaxId(table) + 1

\* The row an insert stores: name and ingredience as given, both timestamps
\* defaulted to CURRENT_TIMESTAMP.
NewRow(table, clock, stmt) ==
    [id |-> NextId(table), name |-> stmt.name.val,
     ingredience |-> stmt.ingredience.val,
     createdAt |-> Timestamps[clock], updatedAt |-> Timestamps[clock]]

\* notNull() on name and ingredience.
NotNullOk(stmt) == stmt.name.type # "null" /\ stmt.ingredience.type # "null"

\* eq(schema.recipes.id, id)
IdEq(row, n) == ~n.nan /\ row.id * n.den = n.num

\* One statement against the table: the error, the rows it returns and the
\* table afterwards.  up is whether storage can be reached for this call.
\* Mutant of Execute: the where clause of the select by id is lost.
ExecuteNoWhere(stmt, table, clock, up) ==
    IF ~up THEN [error |-> Unavailable, result |-> <<>>, table |-> table]
    ELSE IF stmt.op \in {"select", "selectWhereId"}
    THEN [error |-> NoError, result |-> table, table |-> table]
    ELSE IF ~NotNullOk(stmt)
    THEN [error |-> NotNullFailed, result |-> <<>>, table |-> table]
    ELSE [error |-> NoError, result |-> <<NewRow(table, clock, stmt)>>,
          table |-> Append(table, NewRow(table, clock, stmt))]
\* Mutant of Execute: a select by id stamps updatedAt on the rows it reads.
ExecuteTouch(stmt, table, clock, up) ==
    IF ~up THEN [error |-> Unavailable, result |-> <<>>, table |-> table]
    ELSE IF stmt.op = "select"
    THEN [error |-> NoError, result |-> table, table |-> table]
    ELSE IF stmt.op = "selectWhereId"
    THEN [error |-> NoError,
          result |-> SelectSeq(table, LAMBDA r : IdEq(r, stmt.id)),
          table |-> [i \in 1..Len(table) |->
                        IF IdEq(table[i], stmt.id)
                        THEN [table[i] EXCEPT !.updatedAt = Timestamps[clock]]
                        ELSE table[i]]]
    ELSE IF ~NotNullOk(stmt)
    THEN [error |-> NotNullFailed, result |-> <<>>, table |-> table]
    ELSE [error |-> NoError, result |-> <<NewRow(table, clock, stmt)>>,
          table |-> Append(table, NewRow(table, clock, stmt))]
Execute(stmt, table, clock, up) ==
    IF ~up THEN [error |-> Unavailable, result |-> <<>>, table |-> table]
    ELSE IF stmt.op = "select"
    THEN [error |-> NoError, result |-> table, table |-> table]
    ELSE IF stmt.op = "selectWhereId"
    THEN [error |-> NoError,
          result |-> SelectSeq(table, LAMBDA r : IdEq(r, stmt.id)),
          table |-> table]
    ELSE IF ~NotNullOk(stmt)
    THEN [error |-> NotNullFailed, result |-> <<>>, table |-> table]
    ELSE [error |-> NoError, result |-> <<NewRow(table, clock, stmt)>>,
          table |-> Append(table, NewRow(table, clock, stmt))]

-----------------------------------------------------------------------------
(* Outcomes of a handler.  A promise that rejects inside a handler is not  *)
(* caught there: the error leaves the handler and the framework answers    *)
(* 500.                                                                    *)

Json(status, body) ==
    [status |-> status, kind |-> "json", body |-> body, thrown |-> NoError]
Html(body) ==
    [status |-> 200, kind |-> "html", body |-> body, thrown |-> NoError]
Text ==
    [status |-> 200, kind |-> "text", body |-> <<>>, thrown |-> NoError]
Redirect ==
    [status |-> 302, kind |-> "redirect", body |-> <<>>, thrown |-> NoError]
ZodError ==
    [status |-> 400, kind |-> "ZodError", body |-> <<>>, thrown |-> NoError]
NoRoute ==
    [status |-> 404, kind |-> "no route", body |-> <<>>, thrown |-> NoError]
Thrown(e) ==
    [status |-> 500, kind |-> "error", body |-> <<>>, thrown |-> e]

\* const [x] = await ...: the first element, or undefined (no body) if none.
First(result) == IF result = <<>> THEN <<>> ELSE <<result[1]>>

\* What a handler does before its await: it answers at once (the validator
\* refused the input, or the handler needs no storage), or it issues stmt.
Answer(response) == [issue |-> FALSE, response |-> response, stmt |-> SelectAll]
Issue(stmt) == [issue |-> TRUE, response |-> Text, stmt |-> stmt]

\* The <li> entries of the two HTML pages: name and ingredience of each row.
RecipeList(recipes) ==
    [i \in 1..Len(recipes) |->
        [name |-> recipes[i].name, ingredience |-> recipes[i].ingredience]]

\* app.get("/") and app.get("/recipes") of src/src/index.ts
RootBefore(r) == Issue(SelectAll)
RootAfter(res) ==
    IF res.error # NoError THEN Thrown(res.error) ELSE Html(RecipeList(res.result))

\* app.post("/add-recipe"): the parsed form fields go to the insert as they are.
AddRecipeBefore(r) == Issue(InsertValues(r.name, r.ingredience))
AddRecipeAfter(res) ==
    IF res.error # NoError THEN Thrown(res.error) ELSE Redirect

\* .openapi(getRecipes, ...)
GetRecipesBefore(r) == Issue(SelectAll)
\* Mutant of GetRecipesAfter: a failed select is answered as an empty list.
GetRecipesAfterMasked(res) ==
    IF res.error # NoError THEN Json(200, <<>>) ELSE Json(200, res.result)
\* Mutant of GetRecipesAfter: the list is destructured as in getRecipe.
GetRecipesAfterFirst(res) ==
    IF res.error # NoError THEN Thrown(res.error)
    ELSE Json(200, First(res.result))
GetRecipesAfter(res) ==
    IF res.error # NoError THEN Thrown(res.error) ELSE Json(200, res.result)

\* .openapi(getRecipe, ...): const [user] = await ...; c.json(user)
GetRecipeBefore(r) ==
    IF r.id = NoParam THEN Answer(NoRoute)
    ELSE IF ~ParamsSchema(r.id).success THEN Answer(ZodError)
    ELSE Issue(SelectWhereId(ParamsSchema(r.id).id))
\* Mutant of GetRecipeAfter: the record is cut down to the three fields of
\* RecipeSchema, the timestamps left blank.
GetRecipeAfterStripped(res) ==
    IF res.error # NoError THEN Thrown(res.error)
    ELSE Json(200, [i \in 1..Len(First(res.result)) |->
            [res.result[i] EXCEPT !.createdAt = "", !.updatedAt = ""]])
GetRecipeAfter(res) ==
    IF res.error # NoError THEN Thrown(res.error)
    ELSE Json(200, First(res.result))

\* .openapi(createRecipe, ...): const [newRecipe] = await ...returning()
CreateRecipeBefore(r) ==
    IF ~NewRecipeSchema(r.name, r.ingredience) THEN Answer(ZodError)
    ELSE Issue(InsertValues(r.name, r.ingredience))
CreateRecipeAfter(res) ==
    IF res.error # NoError THEN Thrown(res.error)
    ELSE Json(201, First(res.result))

\* src/unnamed/part_000: the same handler behind the email schema.
Part000CreateRecipeBefore(r) ==
    IF ~Part000NewRecipeSchema(r.name, r.ingredience) THEN Answer(ZodError)
    ELSE Issue(InsertValues(r.name, r.ingredience))

\* src/unnamed/part_000: .openapi(root, ...) answers a text, without storage.
Part000RootBefore(r) == Answer(Text)

Before(r) ==
    CASE r.route = "GET /" /\ r.app = "index" -> RootBefore(r)
      [] r.route = "GET /" /\ r.app = "part_000" -> Part000RootBefore(r)
      [] r.route = "GET /recipes" -> RootBefore(r)
      [] r.route = "POST /add-recipe" -> AddRecipeBefore(r)
      [] r.route = "GET /api/recipes" -> GetRecipesBefore(r)
      [] r.route = "GET /api/recipes/{id}" -> GetRecipeBefore(r)
      [] r.route = "POST /api/recipe" /\ r.app = "index" -> CreateRecipeBefore(r)
      [] r.route = "POST /api/recipe" /\ r.app = "part_000" ->
            Part000CreateRecipeBefore(r)

After(r, res) ==
    CASE r.route \in {"GET /", "GET /recipes"} -> RootAfter(res)
      [] r.route = "POST /add-recipe" -> AddRecipeAfter(res)
      [] r.route = "GET /api/recipes" -> GetRecipesAfter(res)
      [] r.route = "GET /api/recipes/{id}" -> GetRecipeAfter(res)
      [] r.route = "POST /api/recipe" -> CreateRecipeAfter(res)

-----------------------------------------------------------------------------
(* The exchanges.                                                          *)

Request(app, route, name, ingredience, id) ==
    [app |-> app, route |-> route, name |-> name, ingredience |-> ingredience,
     id |-> id, began |-> Len(assigned)]

NoRequest ==
    [app |-> "index", route |-> "none", name |-> Undefined,
     ingredience |-> Undefined, id |-> NoParam, began |-> 0]

Ids(response) ==
    IF response.kind = "json"
    THEN {response.body[i].id : i \in 1..Len(response.body)}
    ELSE {}

\* The bookkeeping of an answered request r: what it called, what came out.
Answered(r, made, response) ==
    /\ req' = r
    /\ calls' = made
    /\ resp' = response
    /\ created' = IF resp.status = 201 THEN resp.body ELSE <<>>
    /\ seen' = seen \cup Ids(resp)

\* Storage runs the statement of a suspended handler, which then resumes.
Resume(r, stmt, up) ==
    LET res == Execute(stmt, rows, now, up)
    IN  /\ stmt.op = "insert" => Len(rows) < MaxRows
        /\ rows' = res.table
        /\ assigned' = IF Len(res.table) > Len(rows)
                       THEN Append(assigned, res.table[Len(res.table)].id)
                       ELSE assigned
        /\ Answered(r, <<[stmt |-> stmt, error |-> res.error]>>, After(r, res))

\* A request handled from arrival to answer with nothing in between.
Serve(r, up) ==
    LET plan == Before(r)
    IN  /\ IF plan.issue
           THEN Resume(r, plan.stmt, up)
           ELSE /\ Answered(r, <<>>, plan.response)
                /\ UNCHANGED <<rows, assigned>>
        /\ UNCHANGED <<now, inflight>>

Root(up) == Serve(Request("index", "GET /", Undefined, Undefined, NoParam), up)

Recipes(up) ==
    Serve(Request("index", "GET /recipes", Undefined, Undefined, NoParam), up)

AddRecipe(name, ingredience, up) ==
    Serve(Request("index", "POST /add-recipe", name, ingredience, NoParam), up)

\* getRecipes and getRecipe: src/unnamed/part_000 holds the same two handlers,
\* character for character.
GetRecipes(up) ==
    Serve(Request("index", "GET /api/recipes", Undefined, Undefined, NoParam), up)

GetRecipe(id, up) ==
    Serve(Request("index", "GET /api/recipes/{id}", Undefined, Undefined, id), up)

CreateRecipe(name, ingredience, up) ==
    Serve(Request("index", "POST /api/recipe", name, ingredience, NoParam), up)

Part000Root ==
    Serve(Request("part_000", "GET /", Undefined, Undefined, NoParam), TRUE)

Part000CreateRecipe(name, ingredience, up) ==
    Serve(Request("part_000", "POST /api/recipe", name, ingredience, NoParam), up)

\* The storage clock advances.
Tick ==
    /\ now < Len(Timestamps)
    /\ now' = now + 1
    /\ UNCHANGED <<rows, req, calls, resp, created, seen, assigned, inflight>>

Init ==
    /\ rows = <<>>
    /\ now = 1
    /\ req = NoRequest
    /\ calls = <<>>
    /\ resp = Text
    /\ created = <<>>
    /\ seen = {}
    /\ assigned = <<>>
    /\ inflight = <<>>

Next ==
    \/ \E up \in BOOLEAN : Root(up)
    \/ \E up \in BOOLEAN : Recipes(up)
    \/ \E b \in FormBodies, up \in BOOLEAN : AddRecipe(b.name, b.ingredience, up)
    \/ \E up \in BOOLEAN : GetRecipes(up)
    \/ \E id \in IdParams, up \in BOOLEAN : GetRecipe(id, up)
    \/ \E b \in JsonBodies, up \in BOOLEAN : CreateRecipe(b.name, b.ingredience, up)
    \/ Part000Root
    \/ \E b \in JsonBodies, up \in BOOLEAN :
            Part000CreateRecipe(b.name, b.ingredience, up)
    \/ Tick

Spec == Init /\ [][Next]_vars

-----------------------------------------------------------------------------
(* Interleaved requests.  A handler runs to its await, where it has issued *)
(* its one statement; storage runs the statements one at a time, in any    *)
(* order, and each handler resumes with the result of its own.             *)

ConcurrentRequests ==
    { Request("index", "POST /api/recipe", Str(Ramen), Str(Soba), NoParam),
      Request("index", "POST /api/recipe", Undefined, Str(Soba), NoParam),
      Request("index", "POST /add-recipe", Str(Ramen), Str(""), NoParam),
      Request("index", "GET /api/recipes", Undefined, Undefined, NoParam) }

Remove(s, i) == SubSeq(s, 1, i - 1) \o SubSeq(s, i + 1, Len(s))

\* A request arrives and its handler runs up to the await.
Arrive(r) ==
    LET plan == Before(r)
    IN  /\ IF plan.issue
           THEN /\ Len(inflight) < MaxInflight
                /\ inflight' = Append(inflight, [req |-> r, stmt |-> plan.stmt])
                /\ UNCHANGED <<req, calls, resp, created, seen>>
           ELSE /\ Answered(r, <<>>, plan.response)
                /\ UNCHANGED inflight
        /\ UNCHANGED <<rows, assigned, now>>

\* Storage runs the statement of the i-th suspended handler, which answers.
Settle(i, up) ==
    /\ Resume(inflight[i].req, inflight[i].stmt, up)
    /\ inflight' = Remove(inflight, i)
    /\ UNCHANGED now

ConcurrentNext ==
    \/ \E r \in ConcurrentRequests : Arrive(r)
    \/ \E i \in 1..Len(inflight), up \in BOOLEAN : Settle(i, up)
    \/ Tick

ConcurrentSpec == Init /\ [][ConcurrentNext]_vars

-----------------------------------------------------------------------------
(* Vocabulary of the claims.                                               *)

IsCreateRecipe(r) == r.route = "POST /api/recipe"
IsAddRecipe(r) == r.route = "POST /add-recipe"
IsGetRecipe(r) == r.route = "GET /api/recipes/{id}"
IsGetRecipes(r) == r.route = "GET /api/recipes"

EmptyText(v) == v = Str("")
Missing(v) == v.type = "undefined"
NonEmptyText(v) == v.type = "string" /\ v.val # ""

ValidationError(response) == response = ZodError
NotFound(response) == response = Json(200, <<>>)

\* Storage was reached: some statement was issued to it.
StorageAccessed == calls # <<>>
\* The exchange wrote a row.
Wrote == \E i \in 1..Len(calls) :
            calls[i].stmt.op = "insert" /\ calls[i].error = NoError
\* The exchange's storage call failed.
CallFailed == calls # <<>> /\ calls[1].error # NoError
\* Storage could be reached by every call of the exchange.
Reachable == \A i \in 1..Len(calls) : calls[i].error # Unavailable

RowIds == {rows[i].id : i \in 1..Len(rows)}
AssignedIds == {assigned[i] : i \in 1..Len(assigned)}

-----------------------------------------------------------------------------
\* C1: a CreateRecipe request whose name or ingredience is the empty string
\* fails with a ValidationError and writes nothing to storage (stated of the
\* exchanges in which storage can be reached, where a write would succeed).
C1_EmptyFieldRejected ==
    (IsCreateRecipe(req) /\ Reachable
            /\ (EmptyText(req.name) \/ EmptyText(req.ingredience)))
        => (ValidationError(resp) /\ ~Wrote)

\* C2: on both entry points that insert (POST /api/recipe, POST /add-recipe)
\* a request without name or without ingredience is rejected with a
\* ValidationError before storage is accessed, and no insert is ever issued
\* with an absent name or ingredience (stated of the exchanges in which
\* storage can be reached).
C2_MissingFieldRejected ==
    Reachable =>
        /\ ((IsCreateRecipe(req) \/ IsAddRecipe(req))
                /\ (Missing(req.name) \/ Missing(req.ingredience)))
            => (ValidationError(resp) /\ ~StorageAccessed)
        /\ \A i \in 1..Len(calls) :
            calls[i].stmt.op = "insert" => NotNullOk(calls[i].stmt)

\* C3: CreateRecipe accepts every pair of non-empty texts without a
\* ValidationError and, storage permitting, answers the record holding them;
\* on empty storage CreateRecipe("Ramen", "Soba, broth, pork, eggs") returns
\* the record with id 1, which GetRecipeById(1) and ListRecipes then return.
C3_NonEmptyTextsAccepted ==
    /\ (IsCreateRecipe(req) /\ NonEmptyText(req.name)
            /\ NonEmptyText(req.ingredience))
        => /\ ~ValidationError(resp)
           /\ StorageAccessed
           /\ ~CallFailed =>
                /\ resp.status = 201
                /\ Len(resp.body) = 1
                /\ resp.body[1].name = req.name.val
                /\ resp.body[1].ingredience = req.ingredience.val
                /\ (req.began = 0 /\ Len(assigned) = 1) => resp.body[1].id = 1
    /\ (created # <<>> /\ IsGetRecipe(req) /\ ~CallFailed
            /\ req.id = <<"1">> /\ created[1].id = 1)
        => resp = Json(200, created)
    /\ (created # <<>> /\ IsGetRecipes(req) /\ ~CallFailed /\ Len(rows) = 1)
        => resp = Json(200, created)

\* The scenario of C3 as src/src/index.ts runs it: the Ramen record, id 1, is
\* created and then fetched by id.
C3_RamenFetched ==
    /\ IsGetRecipe(req) /\ req.id = <<"1">>
    /\ created # <<>> /\ created[1].name = Ramen /\ created[1].ingredience = Soba
    /\ resp = Json(200, created)

\* C4 as claimed: after a successful CreateRecipe, the ListRecipes that
\* follows holds exactly one record with the created name and ingredience,
\* and the created id was returned by no earlier operation.
C4_ExactlyOneWithValues ==
    /\ resp.status = 201 => (Len(resp.body) = 1 /\ resp.body[1].id \notin seen)
    /\ (created # <<>> /\ IsGetRecipes(req) /\ ~CallFailed)
        => Cardinality({i \in 1..Len(resp.body) :
                /\ resp.body[i].name = created[1].name
                /\ resp.body[i].ingredience = created[1].ingredience}) = 1

\* C4 amended: after a successful CreateRecipe, the ListRecipes that follows
\* holds exactly one record with the created id, that record is the one
\* CreateRecipe returned (so it has the created name and ingredience), and the
\* created id was returned by no earlier operation; other records may hold
\* the same name and ingredience.
C4_ExactlyOneWithId ==
    /\ resp.status = 201 =>
        /\ Len(resp.body) = 1
        /\ resp.body[1].id \notin seen
        /\ resp.body[1].name = req.name.val
        /\ resp.body[1].ingredience = req.ingredience.val
    /\ (created # <<>> /\ IsGetRecipes(req) /\ ~CallFailed)
        => /\ Cardinality({i \in 1..Len(resp.body) :
                    resp.body[i].id = created[1].id}) = 1
           /\ \E i \in 1..Len(resp.body) : resp.body[i] = created[1]

\* C4's case: a list right after the create of a second record with the
\* values of the first.
C4_ListAfterDuplicate ==
    /\ created # <<>> /\ IsGetRecipes(req) /\ ~CallFailed
    /\ Len(resp.body) = 2
    /\ resp.body[1].name = resp.body[2].name
    /\ resp.body[1].ingredience = resp.body[2].ingredience
    /\ resp.body[2] = created[1]

\* C5: GetRecipeById with the id a successful CreateRecipe just returned
\* answers a record equal to the returned one in all five fields.
C5_GetAfterCreate ==
    (created # <<>> /\ IsGetRecipe(req) /\ ~CallFailed
        /\ ParamsSchema(req.id).success
        /\ IdEq(created[1], ParamsSchema(req.id).id))
        => /\ resp.status = 200
           /\ Len(resp.body) = 1
           /\ resp.body[1].id = created[1].id
           /\ resp.body[1].name = created[1].name
           /\ resp.body[1].ingredience = created[1].ingredience
           /\ resp.body[1].createdAt = created[1].createdAt
           /\ resp.body[1].updatedAt = created[1].updatedAt

\* C5's case: the second record is fetched by its id right after its
\* creation, the clock having advanced in between.
C5_SecondFetched ==
    /\ created # <<>> /\ created[1].id = 2
    /\ IsGetRecipe(req) /\ req.id = <<"2">>
    /\ resp = Json(200, created)
    /\ now = 2 /\ created[1].createdAt = Timestamps[1]

\* C6: no two persisted recipes share an id, no id is assigned twice, and
\* the id of a successful create exceeds every id assigned before the
\* create began, however the creates interleave.
C6_UniqueIncreasingIds ==
    /\ \A i, j \in 1..Len(rows) : i # j => rows[i].id # rows[j].id
    /\ \A i, j \in 1..Len(assigned) : i < j => assigned[i] < assigned[j]
    /\ RowIds = AssignedIds
    /\ resp.status = 201 =>
        /\ Len(resp.body) = 1
        /\ resp.body[1].id \in AssignedIds
        /\ \A k \in 1..req.began : assigned[k] < resp.body[1].id
    /\ \A k \in 1..Len(inflight) : inflight[k].req.began <= Len(assigned)

\* C6's case: two creates were in flight together; the one that began first,
\* before any id was assigned, was answered second and got id 2.
C6_Interleaved ==
    /\ resp.status = 201 /\ resp.body[1].id = 2
    /\ req.began = 0
    /\ Len(rows) = 2

\* C7: GetRecipeById looks a record up only when its id coerces to a positive
\* integer; any other id that is given is answered with a ValidationError
\* before storage is accessed (stated of the exchanges in which storage can
\* be reached).
C7_OnlyPositiveIntegerIds ==
    (IsGetRecipe(req) /\ req.id # NoParam /\ Reachable
        /\ ~IsPositiveInteger(Number(req.id)))
        => (ValidationError(resp) /\ ~StorageAccessed)

\* C8: for a positive-integer id that was never assigned, GetRecipeById with
\* storage reachable answers not found: no ValidationError, no record, no
\* storage error.
C8_NeverAssignedNotFound ==
    (IsGetRecipe(req) /\ IsPositiveInteger(Number(req.id)) /\ Reachable
        /\ \A k \in AssignedIds : ~IdEq([id |-> k], Number(req.id)))
        => (NotFound(resp) /\ Len(calls) = 1 /\ ~CallFailed)

\* C8's case: with records 1 and 2 stored, id 3 is asked for.
C8_AskedForThird ==
    /\ IsGetRecipe(req) /\ req.id = <<"3">>
    /\ Len(rows) = 2 /\ Reachable
    /\ NotFound(resp)

\* C9: a failed storage call ends its operation with the storage error, after
\* that one call; a failed call is never answered with a success.
C9_StorageErrorPropagates ==
    /\ Len(calls) <= 1
    /\ CallFailed => resp = Thrown(calls[1].error)
    /\ resp.status \in {200, 201, 302} => ~CallFailed

\* C9's case: the list fails on unreachable storage while records exist.
C9_ListFailed ==
    /\ IsGetRecipes(req) /\ Len(rows) > 0
    /\ calls # <<>> /\ calls[1].error = Unavailable
    /\ resp = Thrown(Unavailable)

\* C10: every step leaves each persisted record as it is; the table grows by
\* at most one row, and only in a create that succeeds; ListRecipes and
\* GetRecipeById leave the table as it is.
C10_OnlyGrows ==
    [][ /\ Len(rows') \in {Len(rows), Len(rows) + 1}
        /\ \A i \in 1..Len(rows) : rows'[i] = rows[i]
        /\ Len(rows') = Len(rows) + 1 =>
            /\ IsCreateRecipe(req') \/ IsAddRecipe(req')
            /\ resp'.status \in {201, 302}
        /\ (req' # req /\ ~(IsCreateRecipe(req') \/ IsAddRecipe(req')))
            => rows' = rows
        /\ (resp'.status \in {201, 302} /\ (req' # req \/ resp' # resp
                \/ calls' # calls))
            => Len(rows') = Len(rows) + 1 ]_vars

\* C10's case: a record is read by id after a later create and a tick of the
\* clock, with two records stored.
C10_ReadAfterGrowth ==
    /\ Len(rows) = 2 /\ now = 2
    /\ rows[1].createdAt = Timestamps[1]
    /\ IsGetRecipe(req) /\ resp = Json(200, <<rows[1]>>)

=============================================================================
